---- MODULE Spec2Model ----
(***************************************************************************)
(* Model of cloud/amazon/rds_snapshot.py: one invocation of the module     *)
(* (main -> delete_snapshot | snapshot_db_instance -> await_resource)      *)
(* against an RDS endpoint whose answers are not under the module's        *)
(* control.  The endpoint is the environment: every call to it may take    *)
(* time and may answer with any record or raise any error.                 *)
(*                                                                         *)
(* Names the file uses but does not define (RDS2Snapshot, params) come     *)
(* from its star imports.  RDS2Snapshot is taken to wrap a response the    *)
(* way the file's own RDSSnapshot does (attributes name and status), and   *)
(* the objects conn.create_db_snapshot / conn.delete_db_snapshot return    *)
(* are read by await_resource through the same two attributes.             *)
(***************************************************************************)
EXTENDS Integers, Sequences, FiniteSets, TLC

VARIABLES
    req,        \* module.params of this invocation
    run,        \* how many times the same request has been run
    pc,         \* position in the code
    result,     \* local `result` of delete_snapshot / snapshot_db_instance
    resource,   \* local `resource` (await_resource's and the caller's)
    changed,    \* local `changed` of snapshot_db_instance
    now,        \* time.time()
    deadline,   \* local `wait_timeout` of await_resource (an absolute time)
    target,     \* parameter `status` of await_resource
    outcome,    \* how the process ended: exit_json, fail_json or a traceback
    calls,      \* calls issued to the endpoint, by kind
    hist        \* what the endpoint answered (observations, not program state)

vars == <<req, run, pc, result, resource, changed, now, deadline, target,
          outcome, calls, hist>>

----------------------------------------------------------------------------
\* Bounds of the model.

\* Largest wait_timeout a request carries.
MaxTimeout == 11

\* Longest time one call to the endpoint takes.
MaxCallTime == 1

\* How many times the same request is run.
MaxRuns == 2

----------------------------------------------------------------------------
\* Values.

\* time.sleep(5)
Interval == 5

SnapshotId == "s1"

\* Python's None as a value of its own, and as the value of an attribute.
None == [none |-> TRUE]
NoName == "None"

Status == {"creating", "available", "deleting", "deleted"}

ErrorCodes == {"DBSnapshotNotFound", "AccessDenied"}

CallTimes == 0 .. MaxCallTime

\* A tags dict, or none.
TagValues == {NoName, "k=v"}

\* What the argument spec lets a request be.
Requests ==
    [state : {"present", "absent"},
     snapshot : {SnapshotId},
     instance_name : {"db1", NoName},
     wait : BOOLEAN,
     wait_timeout : 0 .. MaxTimeout,
     tags : TagValues]

\* What describe_db_snapshots may do: answer with the snapshot in some
\* status, or raise.
DescribeAnswers ==
    [kind : {"found"}, status : Status] \cup [kind : {"error"}, code : ErrorCodes]

\* What a mutating call may do: be accepted, answering with an object whose
\* name may not have been parsed, or raise.
MutateAnswers ==
    [kind : {"accepted"}, name : {SnapshotId, NoName}, status : Status]
        \cup [kind : {"error"}, code : ErrorCodes]

\* RDSSnapshot.__init__: the two attributes the module reads.
RDSSnapshot(name, status) == [name |-> name, status |-> status]

\* RDSSnapshot.get_data
get_data(r) == [id |-> r.name, status |-> r.status]

\* get_db_snapshot: the first snapshot described, None on any exception.
get_db_snapshot(answer) ==
    IF answer.kind = "found"
    THEN RDSSnapshot(SnapshotId, answer.status)
    ELSE None

\* `not result`
Falsy(r) == r = None

\* snapshot_db_instance, line 170: create only when the lookup found nothing.
NeedsCreate_Always(r) == TRUE

NeedsCreate(r) == Falsy(r)

\* delete_snapshot, lines 140-143: nothing to delete, or a delete in flight.
DeleteNoOp_InFlightOnly(r) == ~Falsy(r) /\ r.status = "deleting"

DeleteNoOp_AbsentOnly(r) == Falsy(r)

DeleteNoOp(r) == Falsy(r) \/ r.status = "deleting"

\* await_resource, line 125, second conjunct: the status is not yet the target.
OffTarget_Inverted(res, status) == res.status = status

OffTarget(res, status) == res.status # status

----------------------------------------------------------------------------
\* The three ways the process ends.

NoOutcome == [kind |-> "running"]

\* module.exit_json(changed=..., [snapshot=...])
exit_json(c, snap) == [kind |-> "exit", changed |-> c, snapshot |-> snap]

\* module.fail_json(msg=...)
fail_json(msg, detail) == [kind |-> "fail", msg |-> msg, detail |-> detail]

\* an exception nothing catches
Traceback(exc) == [kind |-> "crash", exc |-> exc]

NoCalls == [describe |-> 0, create |-> 0, delete |-> 0, poll |-> 0]

NoHist ==
    [lookup |-> "pending",     \* what the first get_db_snapshot returned
     lookupErr |-> "none",     \* the error the first describe raised
     mutation |-> "none",      \* accepted, or the error the mutating call raised
     options |-> "none",       \* the tags among the options of the create call
     entered |-> FALSE,        \* await_resource was entered
     t0 |-> 0,                 \* when it was entered
     polled |-> "none",        \* what the last describe in the loop did
     stuck |-> TRUE]           \* every record seen while waiting was off target

Seen(r) == IF r = None THEN "absent" ELSE r.status

----------------------------------------------------------------------------
Init ==
    /\ req \in Requests
    /\ run = 1
    /\ pc = "main"
    /\ result = None
    /\ resource = None
    /\ changed = FALSE
    /\ now = 0
    /\ deadline = 0
    /\ target = "none"
    /\ outcome = NoOutcome
    /\ calls = NoCalls
    /\ hist = NoHist

End(o) ==
    /\ pc' = "done"
    /\ outcome' = o

\* module.params.get('wait'), lines 151 and 179
ParamWait_Always == TRUE

ParamWait == req.wait

\* snapshot_db_instance, line 165: `not instance_name`
InstanceNameMissing_Unchecked == FALSE

InstanceNameMissing == req.instance_name = NoName

\* main: dispatch on state
Main ==
    /\ pc = "main"
    /\ pc' = IF req.state = "absent" THEN "delete_lookup" ELSE "snapshot_validate"
    /\ UNCHANGED <<req, run, result, resource, changed, now, deadline, target,
                   outcome, calls, hist>>

\* An exception object: its type and, for a botocore ClientError, the error
\* code under e.response['Error']['Code'].
Exception(type, code) == [type |-> type, response |-> code]

\* `resource.status` on None
AttributeError == Exception("AttributeError", NoName)

\* delete_snapshot, lines 156-160: the handler around await_resource.
DeleteWaitHandler(e) ==
    IF e.response = NoName
    THEN Traceback(AttributeError)
    ELSE IF e.response = "DBSnapshotNotFound"
         THEN exit_json(TRUE, None)
         ELSE fail_json("await_resource raised", e.response)

\* An exception leaving await_resource: delete_snapshot calls it inside a
\* try, snapshot_db_instance does not.
AwaitRaised(e) ==
    IF req.state = "absent" THEN DeleteWaitHandler(e) ELSE Traceback(e)

\* await_resource, line 124: the deadline is fixed on entry, at time t.
AwaitEnter(res, status, t, h) ==
    /\ resource' = res
    /\ target' = status
    /\ deadline' = req.wait_timeout + t
    /\ hist' = [h EXCEPT !.entered = TRUE, !.t0 = t,
                         !.stuck = (res.status # status)]
    /\ pc' = "await_loop"

\* await_resource, line 125: the loop condition (the deadline is tested
\* first, the status only if it has not passed), and line 133.
AwaitLoop ==
    /\ pc = "await_loop"
    /\ IF deadline > now /\ resource = None
       THEN End(AwaitRaised(AttributeError))
       ELSE /\ outcome' = outcome
            /\ pc' = IF deadline > now /\ OffTarget(resource, target)
                     THEN "await_sleep"
                     ELSE IF req.state = "absent" THEN "delete_exit"
                                                  ELSE "snapshot_exit"
    /\ UNCHANGED <<req, run, result, resource, changed, now, deadline, target,
                   calls, hist>>

\* await_resource, line 128: the timeout message names resource.name.
TimeoutFailure_Anonymous(res) ==
    fail_json("Timeout waiting for RDS resource", NoName)

TimeoutFailure(res) == fail_json("Timeout waiting for RDS resource", res.name)

\* await_resource, lines 126-131: sleep, then the two checks before the poll.
AwaitSleep ==
    /\ pc = "await_sleep"
    /\ now' = now + Interval
    /\ IF deadline <= now'
       THEN End(TimeoutFailure(resource))
       ELSE IF resource.name = NoName
            THEN End(fail_json("There was a problem waiting for RDS snapshot",
                               resource.status))
            ELSE /\ pc' = "await_poll"
                 /\ outcome' = outcome
    /\ UNCHANGED <<req, run, result, resource, changed, deadline, target,
                   calls, hist>>

\* await_resource, line 132: the poll.
AwaitPoll ==
    /\ pc = "await_poll"
    /\ \E a \in DescribeAnswers, d \in CallTimes :
         LET r == get_db_snapshot(a) IN
           /\ resource' = r
           /\ now' = now + d
           /\ calls' = [calls EXCEPT !.describe = @ + 1, !.poll = @ + 1]
           /\ hist' = [hist EXCEPT
                         !.polled = IF a.kind = "found" THEN "found" ELSE a.code,
                         !.stuck = @ /\ r # None /\ Seen(r) # target]
    /\ pc' = "await_loop"
    /\ UNCHANGED <<req, run, result, changed, deadline, target, outcome>>

----------------------------------------------------------------------------
\* delete_snapshot

\* lines 137-143: the lookup and the two early exits.
DeleteLookup ==
    /\ pc = "delete_lookup"
    /\ \E a \in DescribeAnswers, d \in CallTimes :
         LET r == get_db_snapshot(a) IN
           /\ result' = r
           /\ now' = now + d
           /\ calls' = [calls EXCEPT !.describe = @ + 1]
           /\ hist' = [hist EXCEPT
                         !.lookup = Seen(r),
                         !.lookupErr = IF a.kind = "error" THEN a.code ELSE "none"]
           /\ IF DeleteNoOp(r)
              THEN End(exit_json(FALSE, None))
              ELSE /\ pc' = "delete_call"
                   /\ outcome' = outcome
    /\ UNCHANGED <<req, run, resource, changed, deadline, target>>

\* lines 144-154: the delete call, its handler, and the wait gate.
DeleteCall ==
    /\ pc = "delete_call"
    /\ \E a \in MutateAnswers, d \in CallTimes :
         LET h == [hist EXCEPT
                     !.mutation = IF a.kind = "error" THEN a.code ELSE "accepted"]
         IN
           /\ now' = now + d
           /\ calls' = [calls EXCEPT !.delete = @ + 1]
           /\ IF a.kind = "error"
              THEN /\ End(fail_json("Failed to delete snapshot", a.code))
                   /\ hist' = h
                   /\ UNCHANGED <<result, resource, deadline, target>>
              ELSE /\ result' = RDSSnapshot(a.name, a.status)
                   /\ IF ~ParamWait
                      THEN /\ End(exit_json(TRUE, None))
                           /\ hist' = h
                           /\ UNCHANGED <<resource, deadline, target>>
                      ELSE /\ AwaitEnter(result', "deleted", now', h)
                           /\ outcome' = outcome
    /\ UNCHANGED <<req, run, changed>>

\* line 155: await_resource returned.
DeleteExit ==
    /\ pc = "delete_exit"
    /\ End(exit_json(TRUE, None))
    /\ UNCHANGED <<req, run, result, resource, changed, now, deadline, target,
                   calls, hist>>

----------------------------------------------------------------------------
\* snapshot_db_instance

\* lines 164-168
SnapshotValidate ==
    /\ pc = "snapshot_validate"
    /\ IF InstanceNameMissing
       THEN /\ End(fail_json("instance_name is required", NoName))
            /\ changed' = changed
       ELSE /\ changed' = FALSE
            /\ pc' = "snapshot_lookup"
            /\ outcome' = outcome
    /\ UNCHANGED <<req, run, result, resource, now, deadline, target, calls, hist>>

\* lines 169-170: the lookup and the decision to create.
SnapshotLookup ==
    /\ pc = "snapshot_lookup"
    /\ \E a \in DescribeAnswers, d \in CallTimes :
         LET r == get_db_snapshot(a) IN
           /\ result' = r
           /\ now' = now + d
           /\ calls' = [calls EXCEPT !.describe = @ + 1]
           /\ hist' = [hist EXCEPT
                         !.lookup = Seen(r),
                         !.lookupErr = IF a.kind = "error" THEN a.code ELSE "none"]
           /\ pc' = IF NeedsCreate(r) THEN "snapshot_create" ELSE "snapshot_wait"
    /\ UNCHANGED <<req, run, resource, changed, deadline, target, outcome>>

\* lines 176-177: the handler of a rejected create.
CreateRejected_Retry(code) ==
    /\ pc' = "snapshot_create"
    /\ outcome' = outcome

CreateRejected(code) == End(fail_json("create_db_snapshot raised", code))

\* line 174: the options of the create call are `**params`.  The file never
\* assigns params and never reads module.params['tags']: whatever the name
\* is bound to, it is not built from the request, so the options carry none
\* of the caller's tags.
params == {NoName}

\* lines 171-177: the create call and its handler.
SnapshotCreate ==
    /\ pc = "snapshot_create"
    /\ \E a \in MutateAnswers, d \in CallTimes, o \in params :
         /\ now' = now + d
         /\ calls' = [calls EXCEPT !.create = @ + 1]
         /\ hist' = [hist EXCEPT
                       !.mutation = IF a.kind = "error" THEN a.code ELSE "accepted",
                       !.options = o]
         /\ IF a.kind = "error"
            THEN /\ CreateRejected(a.code)
                 /\ UNCHANGED <<result, changed>>
            ELSE /\ result' = RDSSnapshot(a.name, a.status)
                 /\ changed' = TRUE
                 /\ pc' = "snapshot_wait"
                 /\ outcome' = outcome
    /\ UNCHANGED <<req, run, resource, deadline, target>>

\* lines 179-180: with wait, whatever the lookup and the create did.
SnapshotWait ==
    /\ pc = "snapshot_wait"
    /\ ParamWait
    /\ AwaitEnter(result, "available", now, hist)
    /\ UNCHANGED <<req, run, result, changed, now, outcome, calls>>

\* lines 181-182: without wait, describe once more.
SnapshotDescribe ==
    /\ pc = "snapshot_wait"
    /\ ~ParamWait
    /\ \E a \in DescribeAnswers, d \in CallTimes :
         /\ resource' = get_db_snapshot(a)
         /\ now' = now + d
         /\ calls' = [calls EXCEPT !.describe = @ + 1]
    /\ pc' = "snapshot_exit"
    /\ UNCHANGED <<req, run, result, changed, deadline, target, outcome, hist>>

\* line 184: resource.get_data() raises when resource is None.
SnapshotExit ==
    /\ pc = "snapshot_exit"
    /\ IF resource = None
       THEN End(Traceback(AttributeError))
       ELSE End(exit_json(changed, get_data(resource)))
    /\ UNCHANGED <<req, run, result, resource, changed, now, deadline, target,
                   calls, hist>>

----------------------------------------------------------------------------
\* The caller runs the module again with the same request; nothing is kept
\* between invocations.
Rerun ==
    /\ pc = "done"
    /\ run < MaxRuns
    /\ run' = run + 1
    /\ pc' = "main"
    /\ result' = None
    /\ resource' = None
    /\ changed' = FALSE
    /\ now' = 0
    /\ deadline' = 0
    /\ target' = "none"
    /\ outcome' = NoOutcome
    /\ calls' = NoCalls
    /\ hist' = NoHist
    /\ UNCHANGED req

Next ==
    \/ Main
    \/ DeleteLookup
    \/ DeleteCall
    \/ DeleteExit
    \/ SnapshotValidate
    \/ SnapshotLookup
    \/ SnapshotCreate
    \/ SnapshotWait
    \/ SnapshotDescribe
    \/ SnapshotExit
    \/ AwaitLoop
    \/ AwaitSleep
    \/ AwaitPoll
    \/ Rerun

Spec == Init /\ [][Next]_vars

----------------------------------------------------------------------------
\* Vocabulary of the properties.

Done == pc = "done"

Exited == outcome.kind = "exit"

Failed == outcome.kind = "fail"

Crashed == outcome.kind = "crash"

TimedOut == Failed /\ outcome.msg = "Timeout waiting for RDS resource"

Present == req.state = "present"

Absent == req.state = "absent"

\* The lookup found the snapshot, and not in the middle of a deletion.
FoundLive == hist.lookup \in Status \ {"deleting"}

----------------------------------------------------------------------------
\* C1: a present invocation whose lookup finds the snapshot in a status
\* other than "deleting" issues no create call and ends with changed=false,
\* for every wait setting and wait_timeout, the first time and on a repeat.
C1_AsStated ==
    (Present /\ FoundLive /\ Done)
        => (calls.create = 0 /\ Exited /\ outcome.changed = FALSE)

\* C2: an absent invocation whose lookup finds nothing ends at once with
\* changed=false: no delete call, no call at all after the first describe,
\* whatever wait and wait_timeout are.
C2_AbsentIdempotent ==
    (Absent /\ hist.lookup = "absent")
        => /\ Done
           /\ outcome = exit_json(FALSE, None)
           /\ calls = [NoCalls EXCEPT !.describe = 1]
           /\ ~hist.entered

C2_Witness ==
    /\ Absent /\ hist.lookup = "absent" /\ Done
    /\ req.wait /\ req.wait_timeout > 0
    /\ outcome = exit_json(FALSE, None)

\* C3: present, wait=true, nothing found by the lookup, create accepted.
\* Exactly one create call is issued; once a describe (or the create answer)
\* shows "available" the invocation ends with changed=true and that record;
\* and before the deadline it ends successfully in no other way.
C3_Pre ==
    /\ Present /\ req.wait
    /\ hist.lookup = "absent"
    /\ hist.mutation = "accepted"

C3_CreateAndWait ==
    C3_Pre
        => /\ calls.create = 1
           /\ calls.delete = 0
           /\ (Done /\ resource # None /\ resource.status = "available")
                => outcome = exit_json(TRUE, [id |-> resource.name,
                                              status |-> "available"])
           /\ (Done /\ Exited /\ now < deadline)
                => /\ outcome.changed
                   /\ outcome.snapshot.status = "available"

C3_Witness ==
    /\ C3_Pre /\ Done
    /\ calls.poll = 2
    /\ now < deadline
    /\ outcome = exit_json(TRUE, [id |-> SnapshotId, status |-> "available"])

\* C4: absent, wait=true, delete accepted: a poll whose describe reports the
\* snapshot as not found ends the invocation with changed=true and no
\* error.
C4_AsStated ==
    (Absent /\ req.wait /\ hist.mutation = "accepted"
       /\ hist.polled = "DBSnapshotNotFound" /\ Done)
        => outcome = exit_json(TRUE, None)

\* The time spent in await_resource so far.
Elapsed == now - hist.t0

\* await_resource has returned to its caller, or ended the process.
AwaitOver == hist.entered /\ pc \in {"snapshot_exit", "delete_exit", "done"}

\* C5: when every record seen while waiting is off target, await_resource
\* ends in the timeout failure, after at least wait_timeout and less than
\* wait_timeout + 2 * Interval.
C5_AsStated ==
    (AwaitOver /\ hist.stuck /\ resource.name # NoName)
        => /\ TimedOut
           /\ Elapsed >= req.wait_timeout
           /\ Elapsed < req.wait_timeout + 2 * Interval

\* C6: present, create rejected with an error other than not-found: the
\* invocation has failed with that error, after the lookup and one create
\* call and nothing else.
C6_NoRetryOnCreateError ==
    (Present /\ hist.mutation \in ErrorCodes \ {"DBSnapshotNotFound"})
        => /\ Done
           /\ Failed
           /\ outcome.detail = hist.mutation
           /\ calls = [NoCalls EXCEPT !.describe = 1, !.create = 1]
           /\ ~hist.entered

C6_Witness ==
    /\ Present /\ req.wait
    /\ hist.mutation = "AccessDenied"
    /\ Done /\ Failed /\ outcome.detail = "AccessDenied"
    /\ calls.create = 1

\* C7: absent, the lookup found the snapshot and not in "deleting", the
\* delete call was rejected: a not-found rejection ends the invocation with
\* changed=true, any other rejection ends it failed.
C7_AsStated ==
    (Absent /\ FoundLive /\ hist.mutation \in ErrorCodes /\ Done)
        => IF hist.mutation = "DBSnapshotNotFound"
           THEN outcome = exit_json(TRUE, None)
           ELSE Failed

\* C8: a first describe that raises an error other than not-found ends the
\* invocation failed at once, with no mutating call.
C8_AsStated ==
    (hist.lookupErr \notin {"none", "DBSnapshotNotFound"})
        => /\ Done
           /\ Failed
           /\ calls.create = 0
           /\ calls.delete = 0

C10_AsStated ==
    /\ (hist.entered /\ pc \in {"snapshot_exit", "delete_exit"} /\ resource # None)
         => resource.status = target
    /\ (Present /\ hist.entered /\ Done /\ Exited)
         => outcome.snapshot.status = "available"

\* C11: a present request without instance_name fails on validation, and no
\* describe, create or delete call is ever made for it.
C11_ValidationFirst ==
    (Present /\ req.instance_name = NoName)
        => /\ calls = NoCalls
           /\ hist = NoHist
           /\ pc \in {"main", "snapshot_validate", "done"}
           /\ Done => (Failed /\ outcome.msg = "instance_name is required")

C11_Witness ==
    /\ Present /\ req.instance_name = NoName /\ req.wait
    /\ Done /\ Failed /\ outcome.msg = "instance_name is required"
    /\ calls = NoCalls

\* What a failure message carries besides its fixed text.
Carried == {outcome.detail}

C13_AsStated ==
    /\ calls.create > 0 => hist.options = req.tags
    /\ calls.create = 0 => hist.options = "none"

\* C14: an absent invocation whose lookup finds the snapshot in "deleting"
\* ends at once with changed=false: no delete call and no poll, with
\* wait=true too.
C14_DeleteInFlight ==
    (Absent /\ hist.lookup = "deleting")
        => /\ Done
           /\ outcome = exit_json(FALSE, None)
           /\ calls = [NoCalls EXCEPT !.describe = 1]
           /\ ~hist.entered

C14_Witness ==
    /\ Absent /\ hist.lookup = "deleting" /\ Done
    /\ req.wait /\ req.wait_timeout > Interval
    /\ outcome = exit_json(FALSE, None)
    /\ calls.delete = 0

\* C15: a describe inside the polling loop that raises an error other than
\* not-found ends the invocation failed with that error; it is not turned
\* into None, a success or another poll.
C15_AsStated ==
    (hist.polled \in ErrorCodes \ {"DBSnapshotNotFound"})
        => /\ resource # None
           /\ Done => (Failed /\ outcome.detail = hist.polled)

\* C16: one invocation issues at most one mutating call; a present request
\* never deletes, an absent request never creates, and changed=true is
\* reported only after a mutating call was issued (and accepted).
C16_OneMutation ==
    /\ calls.create + calls.delete <= 1
    /\ Present => calls.delete = 0
    /\ Absent => calls.create = 0
    /\ (Exited /\ outcome.changed)
         => (calls.create + calls.delete = 1 /\ hist.mutation = "accepted")
    /\ changed => calls.create = 1

C16_Witness ==
    /\ Done /\ Exited /\ outcome.changed
    /\ Absent /\ calls.delete = 1 /\ calls.create = 0
    /\ calls.poll > 0

\* C17: every invocation that waits ends in DONE or FAILED, whatever the
\* endpoint answers while it polls, and the loop issues at most
\* ceil(wait_timeout / Interval) describe calls.
C17_AsStated ==
    /\ (hist.entered /\ Done) => (Exited \/ Failed)
    /\ calls.poll <= (req.wait_timeout + Interval - 1) \div Interval

C19_AsStated ==
    (Present /\ Done)
        => \/ Failed
           \/ Exited /\ outcome.snapshot.id = SnapshotId

----------------------------------------------------------------------------
\* cloud/amazon/rds_facts.py: facts_db_instance_or_snapshot.  The same
\* variables hold one invocation of rds_facts: req its two parameters,
\* resource its local `resource`, calls.describe its lookups.  The lookup
\* functions and the wrappers they build are used by bare names the file
\* does not bind; they are taken to be RDSConnection's methods (lines 64-74).

InstanceNames == {NoName, "db1", "db2"}

SnapshotNames == {NoName, "s1", "s2"}

FactsRequests == [instance_name : InstanceNames, snapshot : SnapshotNames]

\* get_all_dbinstances / get_all_dbsnapshots: the resource in some status, or
\* a BotoServerError.
FactsAnswers ==
    [kind : {"found"}, status : Status] \cup [kind : {"error"}, code : ErrorCodes]

\* get_db_instance, get_db_snapshot: the wrapped first element, None on a
\* BotoServerError.
facts_lookup(name, answer) ==
    IF answer.kind = "found" THEN RDSSnapshot(name, answer.status) ELSE None

\* line 81: both identifiers given.
BothGiven_Unchecked == FALSE

BothGiven == req.instance_name # NoName /\ req.snapshot # NoName

\* `resource` before any assignment (line 92 with neither parameter given).
Unbound == [unbound |-> TRUE]

UnboundLocalError == Exception("UnboundLocalError", NoName)

FactsInit ==
    /\ req \in FactsRequests
    /\ run = 1
    /\ pc = "facts_validate"
    /\ result = None
    /\ resource = Unbound
    /\ changed = FALSE
    /\ now = 0
    /\ deadline = 0
    /\ target = "none"
    /\ outcome = NoOutcome
    /\ calls = NoCalls
    /\ hist = NoHist

\* lines 78-82
FactsValidate ==
    /\ pc = "facts_validate"
    /\ IF BothGiven
       THEN End(fail_json("rds_facts must be called with either instance_name or snapshot, not both",
                          NoName))
       ELSE /\ pc' = "facts_instance"
            /\ outcome' = outcome
    /\ UNCHANGED <<req, run, result, resource, changed, now, deadline, target,
                   calls, hist>>

\* One lookup of `name` and the does-not-exist test after it.
FactsLookup(name, msg, next) ==
    \E a \in FactsAnswers, d \in CallTimes :
        LET r == facts_lookup(name, a) IN
          /\ resource' = r
          /\ now' = now + d
          /\ calls' = [calls EXCEPT !.describe = @ + 1]
          /\ hist' = [hist EXCEPT
                        !.lookup = Seen(r),
                        !.lookupErr = IF a.kind = "error" THEN a.code ELSE "none"]
          /\ IF Falsy(r)
             THEN End(fail_json(msg, name))
             ELSE /\ pc' = next
                  /\ outcome' = outcome

\* lines 83-86
FactsInstance ==
    /\ pc = "facts_instance"
    /\ IF req.instance_name # NoName
       THEN FactsLookup(req.instance_name, "DB instance does not exist",
                        "facts_snapshot")
       ELSE /\ pc' = "facts_snapshot"
            /\ UNCHANGED <<resource, now, calls, hist, outcome>>
    /\ UNCHANGED <<req, run, result, changed, deadline, target>>

\* lines 87-90
FactsSnapshot ==
    /\ pc = "facts_snapshot"
    /\ IF req.snapshot # NoName
       THEN FactsLookup(req.snapshot, "DB snapshot does not exist", "facts_exit")
       ELSE /\ pc' = "facts_exit"
            /\ UNCHANGED <<resource, now, calls, hist, outcome>>
    /\ UNCHANGED <<req, run, result, changed, deadline, target>>

\* line 92
FactsExit ==
    /\ pc = "facts_exit"
    /\ IF resource = Unbound
       THEN End(Traceback(UnboundLocalError))
       ELSE End(exit_json(FALSE, get_data(resource)))
    /\ UNCHANGED <<req, run, result, resource, changed, now, deadline, target,
                   calls, hist>>

\* rds_facts run again with the same request.
FactsRerun ==
    /\ pc = "done"
    /\ run < MaxRuns
    /\ run' = run + 1
    /\ pc' = "facts_validate"
    /\ resource' = Unbound
    /\ now' = 0
    /\ outcome' = NoOutcome
    /\ calls' = NoCalls
    /\ hist' = NoHist
    /\ UNCHANGED <<req, result, changed, deadline, target>>

FactsNext ==
    \/ FactsValidate
    \/ FactsInstance
    \/ FactsSnapshot
    \/ FactsExit
    \/ FactsRerun

FactsSpec == FactsInit /\ [][FactsNext]_vars

\* C20: an rds_facts request with both instance_name and snapshot fails
\* before any lookup; a request whose lookup finds nothing fails with the
\* does-not-exist error naming it; every successful result has changed=false.
C20_FactsValidation ==
    /\ (req.instance_name # NoName /\ req.snapshot # NoName)
         => /\ calls = NoCalls
            /\ pc \in {"facts_validate", "done"}
            /\ Done => (Failed /\ outcome.detail = NoName)
    /\ hist.lookup = "absent"
         => /\ Done
            /\ Failed
            /\ outcome \in
                 {fail_json("DB instance does not exist", req.instance_name),
                  fail_json("DB snapshot does not exist", req.snapshot)}
            /\ outcome.detail # NoName
    /\ Exited
         => /\ outcome.changed = FALSE
            /\ calls.describe = 1
            /\ outcome.snapshot.id \in {req.instance_name, req.snapshot} \ {NoName}

C20_Witness ==
    /\ run = 2
    /\ req.instance_name = NoName /\ req.snapshot = "s2"
    /\ hist.lookupErr = "DBSnapshotNotFound"
    /\ Done
    /\ outcome = fail_json("DB snapshot does not exist", "s2")

====
